---- MODULE Spec2Model ----
(***************************************************************************)
(* Schedule API of madi-backend-node: the schedule loader (loadSchedule),  *)
(* the group aggregator (getAllGroups) and the two routes built on them,   *)
(* for the two server variants of the repository (src/server.js and        *)
(* src/unnamed/part_000).                                                  *)
(*                                                                         *)
(* A file's text is a sequence of JSON tokens; JSON.parse is modelled by a *)
(* recursive-descent parser over the tokens.  A JavaScript value is a      *)
(* record [t, prim, keys, vals]: t is the JSON type, prim the literal of a *)
(* primitive, keys/vals the own enumerable properties in Object.keys order *)
(* (a member's value is kept as the token span that denotes it: the        *)
(* program never looks inside it).                                         *)
(***************************************************************************)
EXTENDS Integers, Sequences, FiniteSets, TLC

VARIABLES variant, fs, reqs

vars == <<variant, fs, reqs>>

\* Number of requests the server has in flight at once in SpecConc.
NReq == 2

Reqs == 1..NReq

Variants == {"server.js", "part_000"}

----------------------------------------------------------------------------
\* JSON text as tokens

P(c) == [k |-> "punct", v |-> c]
S(s) == [k |-> "string", v |-> s]
N(n) == [k |-> "number", v |-> n]
L(l) == [k |-> "literal", v |-> l]

\* {"G1-1":["x"],"G2-2":[]}
TextNumerator ==
  <<P("{"), S("G1-1"), P(":"), P("["), S("x"), P("]"), P(","),
    S("G2-2"), P(":"), P("["), P("]"), P("}")>>

\* {"G3-3":{"a":1},"G2-2":[]}
TextDenominator ==
  <<P("{"), S("G3-3"), P(":"), P("{"), S("a"), P(":"), N("1"), P("}"), P(","),
    S("G2-2"), P(":"), P("["), P("]"), P("}")>>

\* {"A":[]}
TextA == <<P("{"), S("A"), P(":"), P("["), P("]"), P("}")>>

\* {}
TextEmptyObject == <<P("{"), P("}")>>

\* {"B":1,"10":2,"2":3,"B":null}
TextMixed ==
  <<P("{"), S("B"), P(":"), N("1"), P(","), S("10"), P(":"), N("2"), P(","),
    S("2"), P(":"), N("3"), P(","), S("B"), P(":"), L("null"), P("}")>>

\* ["x","y"]
TextArray == <<P("["), S("x"), P(","), S("y"), P("]")>>

\* "ab"
TextString == <<S("ab")>>

\* 0
TextZero == <<N("0")>>

\* 7
TextSeven == <<N("7")>>

\* false
TextFalse == <<L("false")>>

\* null
TextNull == <<L("null")>>

\* {"A":[        (truncated file)
TextTruncated == <<P("{"), S("A"), P(":"), P("[")>>

\* {"A":1,}      (trailing comma)
TextTrailing == <<P("{"), S("A"), P(":"), N("1"), P(","), P("}")>>

\* the empty file
TextBlank == <<>>

Texts ==
  {TextNumerator, TextDenominator, TextA, TextEmptyObject, TextMixed, TextArray,
   TextString, TextZero, TextSeven, TextFalse, TextNull, TextTruncated,
   TextTrailing, TextBlank}

----------------------------------------------------------------------------
\* JavaScript values

Null == [t |-> "null", prim |-> "null", keys |-> <<>>, vals |-> <<>>]

Prim(t, lit) == [t |-> t, prim |-> lit, keys |-> <<>>, vals |-> <<>>]

\* UTF-16 code units of the strings the model uses.
CodeUnits ==
  [s \in {"G1-1", "G2-2", "G3-3", "A", "B", "a", "ab", "x", "y", "0", "1", "2", "10", ""} |->
     CASE s = "G1-1" -> <<71, 49, 45, 49>>
       [] s = "G2-2" -> <<71, 50, 45, 50>>
       [] s = "G3-3" -> <<71, 51, 45, 51>>
       [] s = "A" -> <<65>>
       [] s = "B" -> <<66>>
       [] s = "a" -> <<97>>
       [] s = "ab" -> <<97, 98>>
       [] s = "x" -> <<120>>
       [] s = "y" -> <<121>>
       [] s = "0" -> <<48>>
       [] s = "1" -> <<49>>
       [] s = "2" -> <<50>>
       [] s = "10" -> <<49, 48>>
       [] s = "" -> <<>>]

\* Property names that are canonical array indices, with their numeric value.
IndexValue == [s \in {"0", "1", "2", "10"} |->
                 CASE s = "0" -> 0 [] s = "1" -> 1 [] s = "2" -> 2 [] s = "10" -> 10]

\* ToString of the first array indices.
IndexName == <<"0", "1", "2">>

IsIndex(key) == key \in DOMAIN IndexValue

----------------------------------------------------------------------------
\* JSON.parse

IsPunct(toks, i, c) == i <= Len(toks) /\ toks[i] = P(c)

IsString(toks, i) == i <= Len(toks) /\ toks[i].k = "string"

RECURSIVE EndOfValue(_, _)
RECURSIVE EndOfMembers(_, _)
RECURSIVE EndOfElements(_, _)

\* The index just after the JSON value that starts at toks[i]; 0 when no
\* well-formed value starts there.
EndOfValue(toks, i) ==
  IF i > Len(toks) THEN 0
  ELSE IF toks[i].k \in {"string", "number", "literal"} THEN i + 1
  ELSE IF toks[i] = P("{") THEN
         IF IsPunct(toks, i + 1, "}") THEN i + 2 ELSE EndOfMembers(toks, i + 1)
  ELSE IF toks[i] = P("[") THEN
         IF IsPunct(toks, i + 1, "]") THEN i + 2 ELSE EndOfElements(toks, i + 1)
  ELSE 0

\* toks[i] starts a member (string : value) of an object whose "{" was read.
EndOfMembers(toks, i) ==
  IF ~(IsString(toks, i) /\ IsPunct(toks, i + 1, ":")) THEN 0
  ELSE LET e == EndOfValue(toks, i + 2)
       IN IF e = 0 THEN 0
          ELSE IF IsPunct(toks, e, "}") THEN e + 1
          ELSE IF IsPunct(toks, e, ",") THEN EndOfMembers(toks, e + 1)
          ELSE 0

\* toks[i] starts an element of an array whose "[" was read.
EndOfElements(toks, i) ==
  LET e == EndOfValue(toks, i)
  IN IF e = 0 THEN 0
     ELSE IF IsPunct(toks, e, "]") THEN e + 1
     ELSE IF IsPunct(toks, e, ",") THEN EndOfElements(toks, e + 1)
     ELSE 0

Span(toks, i, e) == SubSeq(toks, i, e - 1)

\* Position of key in the property list props, 0 when it is no property.
RECURSIVE PropIndex(_, _, _)
PropIndex(props, key, i) ==
  IF i > Len(props) THEN 0
  ELSE IF props[i].key = key THEN i
  ELSE PropIndex(props, key, i + 1)

\* CreateDataProperty: a repeated name keeps its place and takes the new value.
DefineProperty(props, key, val) ==
  LET at == PropIndex(props, key, 1)
  IN IF at = 0 THEN Append(props, [key |-> key, val |-> val])
     ELSE [props EXCEPT ![at] = [key |-> key, val |-> val]]

\* The members of a well-formed object text, from toks[i], added to props.
RECURSIVE Members(_, _, _)
Members(toks, i, props) ==
  LET e == EndOfValue(toks, i + 2)
      added == DefineProperty(props, toks[i].v, Span(toks, i + 2, e))
  IN IF IsPunct(toks, e, ",") THEN Members(toks, e + 1, added) ELSE added

\* The elements of a well-formed array text, from toks[i].
RECURSIVE Elements(_, _, _)
Elements(toks, i, elems) ==
  LET e == EndOfValue(toks, i)
      added == Append(elems, Span(toks, i, e))
  IN IF IsPunct(toks, e, ",") THEN Elements(toks, e + 1, added) ELSE added

\* props with x inserted among the leading index-named entries, ascending.
RECURSIVE InsertIndex(_, _)
InsertIndex(props, x) ==
  IF props = <<>> THEN <<x>>
  ELSE IF IndexValue[x.key] < IndexValue[props[1].key] THEN <<x>> \o props
  ELSE <<props[1]>> \o InsertIndex(Tail(props), x)

RECURSIVE IndexProps(_)
IndexProps(props) ==
  IF props = <<>> THEN <<>>
  ELSE IF IsIndex(props[1].key) THEN InsertIndex(IndexProps(Tail(props)), props[1])
  ELSE IndexProps(Tail(props))

NamedProps(props) == SelectSeq(props, LAMBDA p : ~IsIndex(p.key))

\* OrdinaryOwnPropertyKeys: array indices ascending, then the other names in
\* creation order.
OwnProps(props) == IndexProps(props) \o NamedProps(props)

ObjectValue(props) ==
  LET own == OwnProps(props)
  IN [t |-> "object", prim |-> "",
      keys |-> [i \in 1..Len(own) |-> own[i].key],
      vals |-> [i \in 1..Len(own) |-> own[i].val]]

ArrayValue(elems) ==
  [t |-> "array", prim |-> "",
   keys |-> [i \in 1..Len(elems) |-> IndexName[i]],
   vals |-> elems]

LiteralValue(lit) ==
  IF lit = "null" THEN Null ELSE Prim("boolean", lit)

\* JSON.parse(text): [ok |-> FALSE] is the SyntaxError it throws.
JSONparse(toks) ==
  IF EndOfValue(toks, 1) # Len(toks) + 1 THEN [ok |-> FALSE, value |-> Null]
  ELSE [ok |-> TRUE,
        value |->
          CASE toks[1].k = "string" -> Prim("string", toks[1].v)
            [] toks[1].k = "number" -> Prim("number", toks[1].v)
            [] toks[1].k = "literal" -> LiteralValue(toks[1].v)
            [] toks[1] = P("{") ->
                 ObjectValue(IF IsPunct(toks, 2, "}") THEN <<>> ELSE Members(toks, 2, <<>>))
            [] toks[1] = P("[") ->
                 ArrayValue(IF IsPunct(toks, 2, "]") THEN <<>> ELSE Elements(toks, 2, <<>>))]

----------------------------------------------------------------------------
\* JavaScript operators the program applies to a loaded document

\* ToBoolean
Truthy(v) ==
  CASE v.t = "null" -> FALSE
    [] v.t = "boolean" -> v.prim = "true"
    [] v.t = "number" -> v.prim # "0"
    [] v.t = "string" -> v.prim # ""
    [] OTHER -> TRUE

\* typeof v === 'object'
TypeofObject(v) == v.t \in {"object", "array", "null"}

\* Object.keys(v) for a non-null v: own enumerable string-keyed properties.
ObjectKeys(v) ==
  CASE v.t \in {"object", "array"} -> v.keys
    [] v.t = "string" -> [i \in 1..Len(CodeUnits[v.prim]) |-> IndexName[i]]
    [] OTHER -> <<>>

\* a < b for sequences of code units.
RECURSIVE LexLess(_, _)
LexLess(a, b) ==
  IF b = <<>> THEN FALSE
  ELSE IF a = <<>> THEN TRUE
  ELSE IF a[1] # b[1] THEN a[1] < b[1]
  ELSE LexLess(Tail(a), Tail(b))

\* The default comparison of Array.prototype.sort: by UTF-16 code units.
StrLess(x, y) == LexLess(CodeUnits[x], CodeUnits[y])

RECURSIVE SortInsert(_, _)
SortInsert(sorted, x) ==
  IF sorted = <<>> THEN <<x>>
  ELSE IF StrLess(x, sorted[1]) THEN <<x>> \o sorted
  ELSE <<sorted[1]>> \o SortInsert(Tail(sorted), x)

\* Array.from(groups) returned without .sort()
ArrayUnsorted(arr) == arr

RECURSIVE ArraySort(_)
ArraySort(arr) ==
  IF arr = <<>> THEN <<>> ELSE SortInsert(ArraySort(Tail(arr)), arr[1])

Elems(seq) == {seq[i] : i \in 1..Len(seq)}

\* Array.prototype.push in place of Set.prototype.add.
ArrayPush(set, x) == Append(set, x)

\* Set.prototype.add on a Set kept in insertion order.
SetAdd(set, x) == IF x \in Elems(set) THEN set ELSE Append(set, x)

RECURSIVE AddEach(_, _)
AddEach(set, names) ==
  IF names = <<>> THEN set ELSE AddEach(SetAdd(set, names[1]), Tail(names))

----------------------------------------------------------------------------
\* The filesystem under static/

WeekTypes == {"numerator", "denominator", "spring"}

validWeekTypes == {"numerator", "denominator"}

\* path.join(__dirname, 'static', `schedule_${weekType}.json`)
FilePath(weekType) ==
  CASE weekType = "numerator" -> "static/schedule_numerator.json"
    [] weekType = "denominator" -> "static/schedule_denominator.json"
    [] weekType = "spring" -> "static/schedule_spring.json"

Paths == {FilePath(w) : w \in WeekTypes}

Missing == [exists |-> FALSE, readable |-> FALSE, text |-> <<>>]

File(text) == [exists |-> TRUE, readable |-> TRUE, text |-> text]

\* A file that is there and that the process may not read (EACCES).
Unreadable(text) == [exists |-> TRUE, readable |-> FALSE, text |-> text]

FileStates == {Missing, Unreadable(TextA)} \cup {File(t) : t \in Texts}

\* fs.access(path): resolves when the path exists (mode F_OK).
AccessOk(file) == file.exists

\* fs.readFile(path, 'utf8'): resolves with the text of a readable file.
ReadFileOk(file) == file.exists /\ file.readable

\* A read that opens the file for writing ('w+') and so truncates it.
FsAfterReadTruncating(disk, path) ==
  [disk EXCEPT ![path] = [@ EXCEPT !.text = <<>>]]

\* What reading the file at path leaves on disk.
FsAfterRead(disk, path) == disk

----------------------------------------------------------------------------
\* loadSchedule

Thrown == [raised |-> TRUE, value |-> Null]

Returned(v) == [raised |-> FALSE, value |-> v]

FsOp(op, weekType) == [op |-> op, path |-> FilePath(weekType)]

\* The catch block of loadSchedule: log, return null.
LoadCatch(outcome) == IF outcome.raised THEN Returned(Null) ELSE outcome

LoadReturn(outcome) == [next |-> "return", out |-> LoadCatch(outcome), ops |-> <<>>]

LoadAwait(op, weekType) ==
  [next |-> op, out |-> Returned(Null), ops |-> <<FsOp(op, weekType)>>]

\* loadSchedule up to its first await.
LoadStart(v, weekType) ==
  IF v = "part_000"
  THEN IF weekType \notin validWeekTypes
       THEN LoadReturn(Thrown)
       ELSE LoadAwait("access", weekType)
  ELSE LoadAwait("readFile", weekType)

\* part_000: from the end of fs.access to the next await.
LoadAfterAccess(file, weekType) ==
  IF AccessOk(file) THEN LoadAwait("readFile", weekType) ELSE LoadReturn(Thrown)

\* A loader that takes a schedule without groups for a missing one.
LoadAfterReadDroppingEmpty(file) ==
  IF ~ReadFileOk(file) THEN LoadReturn(Thrown)
  ELSE LET parsed == JSONparse(file.text)
       IN LoadReturn(IF parsed.ok /\ parsed.value.keys # <<>>
                     THEN Returned(parsed.value) ELSE Thrown)

\* From the end of fs.readFile to the return.
LoadAfterRead(file) ==
  IF ~ReadFileOk(file) THEN LoadReturn(Thrown)
  ELSE LET parsed == JSONparse(file.text)
       IN LoadReturn(IF parsed.ok THEN Returned(parsed.value) ELSE Thrown)

----------------------------------------------------------------------------
\* getAllGroups and the routes

\* The guard before Object.keys(document).forEach(...)
HasGroups(v, document) ==
  IF v = "part_000"
  THEN Truthy(document) /\ TypeofObject(document)
  ELSE Truthy(document)

AddGroups(v, groups, document) ==
  IF HasGroups(v, document) THEN AddEach(groups, ObjectKeys(document)) ELSE groups

\* new Set(), the two forEach loops, Array.from(groups).sort()
AggregateGroups(v, numerator, denominator) ==
  ArraySort(AddGroups(v, AddGroups(v, <<>>, numerator), denominator))

Idle ==
  [kind |-> "idle", pc |-> "idle", weekType |-> "", cur |-> "", calls |-> 0,
   fsops |-> <<>>, numerator |-> Null, ret |-> Null, raised |-> FALSE,
   status |-> 0, data |-> Null, groups |-> <<>>, nresp |-> 0]

Respond(q, status) == [q EXCEPT !.pc = "done", !.status = status, !.nresp = @ + 1]

\* GET /api/groups once getAllGroups has returned groups.
GroupsRespond(q, groups) == [Respond(q, 200) EXCEPT !.groups = groups]

\* GET /api/schedule/:weekType once loadSchedule has settled.
ScheduleAfterLoad(q, out) ==
  LET q1 == [q EXCEPT !.ret = out.value, !.raised = out.raised]
  IN IF out.raised THEN Respond(q1, 500)
     ELSE IF ~Truthy(out.value) THEN Respond(q1, 404)
     ELSE [Respond(q1, 200) EXCEPT !.data = out.value]

RECURSIVE Resume(_, _, _)

\* getAllGroups once a loadSchedule call has settled.
GroupsAfterLoad(v, q, out) ==
  IF out.raised THEN GroupsRespond([q EXCEPT !.raised = TRUE], <<>>)
  ELSE IF q.cur = "numerator"
  THEN Resume(v,
              [q EXCEPT !.numerator = out.value, !.cur = "denominator", !.calls = @ + 1],
              LoadStart(v, "denominator"))
  ELSE GroupsRespond([q EXCEPT !.ret = out.value],
                     AggregateGroups(v, q.numerator, out.value))

\* The caller of loadSchedule, resumed with what the call settled to.
Continue(v, q, out) ==
  CASE q.kind = "load" ->
         [q EXCEPT !.pc = "done", !.ret = out.value, !.raised = out.raised]
    [] q.kind = "schedule" -> ScheduleAfterLoad(q, out)
    [] q.kind = "groups" -> GroupsAfterLoad(v, q, out)

\* Request q after a step of its loadSchedule call: parked on the next await,
\* or back in the caller.
Resume(v, q, step) ==
  LET q1 == [q EXCEPT !.fsops = @ \o step.ops]
  IN IF step.next = "return" THEN Continue(v, q1, step.out)
     ELSE [q1 EXCEPT !.pc = step.next]

----------------------------------------------------------------------------
\* Actions

\* A direct call loadSchedule(weekType).
CallLoadSchedule(r, weekType) ==
  /\ reqs[r].kind = "idle"
  /\ reqs' = [reqs EXCEPT ![r] =
       Resume(variant,
              [Idle EXCEPT !.kind = "load", !.weekType = weekType, !.cur = weekType,
                           !.calls = 1],
              LoadStart(variant, weekType))]
  /\ UNCHANGED <<variant, fs>>

\* GET /api/schedule/:weekType up to its first await.
GetSchedule(r, weekType) ==
  /\ reqs[r].kind = "idle"
  /\ reqs' = [reqs EXCEPT ![r] =
       LET q == [Idle EXCEPT !.kind = "schedule", !.weekType = weekType]
       IN IF weekType \notin {"numerator", "denominator"}
          THEN Respond(q, 400)
          ELSE Resume(variant, [q EXCEPT !.cur = weekType, !.calls = 1],
                      LoadStart(variant, weekType))]
  /\ UNCHANGED <<variant, fs>>

\* GET /api/groups up to its first await.
GetGroups(r) ==
  /\ reqs[r].kind = "idle"
  /\ reqs' = [reqs EXCEPT ![r] =
       Resume(variant, [Idle EXCEPT !.kind = "groups", !.cur = "numerator", !.calls = 1],
              LoadStart(variant, "numerator"))]
  /\ UNCHANGED <<variant, fs>>

\* fs.access settles.
AccessDone(r) ==
  /\ reqs[r].pc = "access"
  /\ reqs' = [reqs EXCEPT ![r] =
       Resume(variant, reqs[r], LoadAfterAccess(fs[FilePath(reqs[r].cur)], reqs[r].cur))]
  /\ UNCHANGED <<variant, fs>>

\* fs.readFile settles.
ReadDone(r) ==
  /\ reqs[r].pc = "readFile"
  /\ reqs' = [reqs EXCEPT ![r] =
       Resume(variant, reqs[r], LoadAfterRead(fs[FilePath(reqs[r].cur)]))]
  /\ fs' = FsAfterRead(fs, FilePath(reqs[r].cur))
  /\ UNCHANGED variant

Step(r) ==
  \/ \E w \in WeekTypes : CallLoadSchedule(r, w)
  \/ \E w \in WeekTypes : GetSchedule(r, w)
  \/ GetGroups(r)
  \/ AccessDone(r)
  \/ ReadDone(r)

\* Any deployment: either server variant, any content of the two schedule
\* files, with or without a stray schedule_spring.json.
Init ==
  /\ variant \in Variants
  /\ fs \in {d \in [Paths -> FileStates] : d[FilePath("spring")] \in {Missing, File(TextA)}}
  /\ reqs = [r \in Reqs |-> Idle]

\* One request at a time.
Next == Step(1)

Spec == Init /\ [][Next]_vars

\* A few deployments, for the server handling NReq requests at once.
InitConc ==
  /\ variant \in Variants
  /\ fs \in {d \in [Paths -> FileStates] :
               /\ d[FilePath("numerator")] \in
                    {Missing, File(TextNumerator), File(TextMixed), File(TextArray),
                     File(TextTruncated)}
               /\ d[FilePath("denominator")] \in
                    {Missing, File(TextDenominator), File(TextA), File(TextString),
                     Unreadable(TextA)}
               /\ d[FilePath("spring")] = File(TextA)}
  /\ reqs = [r \in Reqs |-> Idle]

NextConc == \E r \in Reqs : Step(r)

SpecConc == InitConc /\ [][NextConc]_vars

----------------------------------------------------------------------------
\* The loader and the aggregator as functions of the disk

\* What an uninterrupted call loadSchedule(weekType) settles to.
LoadOutcome(v, disk, weekType) ==
  LET file == disk[FilePath(weekType)]
      s1 == LoadStart(v, weekType)
      s2 == IF s1.next = "access" THEN LoadAfterAccess(file, weekType) ELSE s1
  IN IF s2.next = "return" THEN s2.out ELSE LoadAfterRead(file).out

----------------------------------------------------------------------------
\* Vocabulary of the properties

RecognizedParities == {"numerator", "denominator"}

Done(r) == reqs[r].pc = "done"

LoadDone(r) == reqs[r].kind = "load" /\ Done(r)

GroupsDone(r) == reqs[r].kind = "groups" /\ Done(r)

ScheduleDone(r) == reqs[r].kind = "schedule" /\ Done(r)

FileOf(r) == fs[FilePath(reqs[r].weekType)]

WellFormed(text) == JSONparse(text).ok

\* The text is well-formed JSON whose top-level value is an object.
IsObjectText(text) == WellFormed(text) /\ JSONparse(text).value.t = "object"

\* The top-level member names of a JSON document: an object's, and none for
\* any other JSON value or for an absent document.
JsonKeys(document) == IF document.t = "object" THEN Elems(document.keys) ELSE {}

StrictlySorted(names) ==
  \A i \in 1..Len(names) : \A j \in 1..Len(names) : i < j => StrLess(names[i], names[j])

ScenarioGroups == <<"G1-1", "G2-2", "G3-3">>

----------------------------------------------------------------------------
\* Properties

\* C1: for a parity that is neither numerator nor denominator, loadSchedule
\* returns null, whatever files are on disk.
C1_UnrecognizedParityIsAbsent ==
  \A r \in Reqs :
    LoadDone(r) /\ reqs[r].weekType \notin RecognizedParities
      => reqs[r].ret = Null

\* C2 as stated: for a recognized parity whose file exists and holds valid
\* JSON object text, loadSchedule returns the parsed document.
C2_ExistingObjectFileIsReturned ==
  \A r \in Reqs :
    (/\ LoadDone(r)
     /\ reqs[r].weekType \in RecognizedParities
     /\ FileOf(r).exists
     /\ IsObjectText(FileOf(r).text))
      => reqs[r].ret = JSONparse(FileOf(r).text).value

\* C2 amended: for a recognized parity whose file exists, can be read and
\* holds valid JSON object text, loadSchedule returns exactly the parsed
\* document (same keys in the same order, same values).
C2_ReadableObjectFileIsReturned ==
  \A r \in Reqs :
    (/\ LoadDone(r)
     /\ reqs[r].weekType \in RecognizedParities
     /\ FileOf(r).exists
     /\ FileOf(r).readable
     /\ IsObjectText(FileOf(r).text))
      => /\ ~reqs[r].raised
         /\ reqs[r].ret = JSONparse(FileOf(r).text).value
         /\ reqs[r].ret.t = "object"

\* The loader has returned the document of a readable object file, here the
\* one of {"B":1,"10":2,"2":3,"B":null}.
C2_Witness ==
  /\ LoadDone(1)
  /\ reqs[1].weekType = "numerator"
  /\ FileOf(1) = File(TextMixed)
  /\ reqs[1].ret.keys = <<"2", "10", "B">>
  /\ reqs[1].ret.vals = <<<<N("3")>>, <<N("2")>>, <<L("null")>>>>

\* The call of the loader went through one of its failure paths.
FailurePath(r) ==
  \/ reqs[r].weekType \notin RecognizedParities
  \/ ~FileOf(r).exists
  \/ ~FileOf(r).readable
  \/ ~WellFormed(FileOf(r).text)

\* C3: loadSchedule never raises, and on every failure path (invalid parity,
\* file missing, file unreadable, content not well-formed) it completes with
\* null.
C3_FailuresBecomeAbsence ==
  \A r \in Reqs :
    /\ ~reqs[r].raised
    /\ LoadDone(r) /\ FailurePath(r) => reqs[r].ret = Null

\* No call of loadSchedule, from any caller, settles by raising.
LoaderNeverRaises == \A r \in Reqs : ~reqs[r].raised

\* C4: the result of getAllGroups holds exactly the top-level keys of the
\* numerator document and of the denominator document (none for an absent
\* document).
C4_GroupsAreTheUnionOfKeys ==
  \A r \in Reqs :
    GroupsDone(r)
      => Elems(reqs[r].groups) = JsonKeys(reqs[r].numerator) \cup JsonKeys(reqs[r].ret)

\* C5: the sequence getAllGroups returns is sorted ascending by code units
\* and holds no name twice.
C5_GroupsSortedWithoutDuplicates ==
  \A r \in Reqs : GroupsDone(r) => StrictlySorted(reqs[r].groups)

\* getAllGroups has merged two documents that share a key and list their
\* keys out of order.
C5_Witness ==
  /\ GroupsDone(1)
  /\ reqs[1].numerator.keys = <<"G1-1", "G2-2">>
  /\ reqs[1].ret.keys = <<"G3-3", "G2-2">>
  /\ reqs[1].groups = ScenarioGroups

\* C6: a document whose top-level value is valid JSON and not an object
\* contributes no entry to the result of getAllGroups.
C6_NonObjectContributesNothing ==
  \A r \in Reqs :
    GroupsDone(r) =>
      /\ reqs[r].numerator.t # "object" => Elems(reqs[r].groups) \subseteq JsonKeys(reqs[r].ret)
      /\ reqs[r].ret.t # "object" => Elems(reqs[r].groups) \subseteq JsonKeys(reqs[r].numerator)

\* C7: called with an unrecognized parity, loadSchedule attempts no
\* filesystem operation at all.
C7_NoFileAccessForUnrecognizedParity ==
  \A r \in Reqs :
    reqs[r].kind = "load" /\ reqs[r].weekType \notin RecognizedParities
      => reqs[r].fsops = <<>>

\* C8: whatever else the server is doing meanwhile, the list getAllGroups
\* returns is the one that loading and merging the denominator first and the
\* numerator second gives on the same disk.
C8_LoadOrderIsImmaterial ==
  \A r \in Reqs :
    GroupsDone(r)
      => reqs[r].groups =
           AggregateGroups(variant,
                           LoadOutcome(variant, fs, "denominator").value,
                           LoadOutcome(variant, fs, "numerator").value)

\* A getAllGroups has finished while another request is between the two
\* loads of its own getAllGroups.
C8_Witness ==
  /\ GroupsDone(1)
  /\ reqs[1].groups = ScenarioGroups
  /\ reqs[2].kind = "groups"
  /\ reqs[2].cur = "denominator"
  /\ reqs[2].pc = "readFile"

\* C9: no step of the server changes the files, and any two finished
\* invocations of getAllGroups have returned the same sequence.
C9_GetAllGroupsIdempotent ==
  [][/\ fs' = fs
     /\ \A r1 \in Reqs : \A r2 \in Reqs :
          (reqs'[r1].kind = "groups" /\ reqs'[r1].pc = "done" /\
           reqs'[r2].kind = "groups" /\ reqs'[r2].pc = "done")
            => reqs'[r1].groups = reqs'[r2].groups]_vars

\* Two invocations of getAllGroups have finished on the scenario files.
C9_Witness ==
  /\ GroupsDone(1)
  /\ GroupsDone(2)
  /\ reqs[1].groups = ScenarioGroups
  /\ reqs[2].groups = ScenarioGroups

\* C10: a GET /api/schedule/:weekType gets one response: 400 without any
\* call of loadSchedule for an unrecognized weekType; 404 when loadSchedule
\* returned null; otherwise a success whose data is the returned document.
C10_ScheduleResponse ==
  \A r \in Reqs :
    ScheduleDone(r) =>
      /\ reqs[r].nresp = 1
      /\ reqs[r].weekType \notin RecognizedParities
           => reqs[r].status = 400 /\ reqs[r].calls = 0
      /\ reqs[r].weekType \in RecognizedParities /\ reqs[r].ret = Null
           => reqs[r].status = 404
      /\ reqs[r].weekType \in RecognizedParities /\ reqs[r].ret # Null
           => reqs[r].status = 200 /\ reqs[r].data = reqs[r].ret

====
